---- MODULE Spec2Model ----
(***************************************************************************)
(* Model of the Python binding surface of rs1090 (python/src/lib.rs):      *)
(* hex decoding of frames, the lenient and strict single-frame decoders,   *)
(* the batch decoders and the ICAO24 address resolver.  Every action is    *)
(* one call of a #[pyfunction]; `out` is what the Python caller observes.  *)
(***************************************************************************)
EXTENDS Integers, Sequences, FiniteSets, TLC

VARIABLES op, args, out, lastInfo

vars == <<op, args, out, lastInfo>>

(***************************************************************************)
(* Characters and hex strings.  A string is a sequence of one-character    *)
(* strings.                                                                *)
(***************************************************************************)
HexLower == <<"0","1","2","3","4","5","6","7","8","9","a","b","c","d","e","f">>

HexUpper == <<"0","1","2","3","4","5","6","7","8","9","A","B","C","D","E","F">>

\* value of a hex digit, either case; -1 for any other character
HexVal(c) ==
  IF \E i \in 1..16 : HexLower[i] = c
    THEN (CHOOSE i \in 1..16 : HexLower[i] = c) - 1
    ELSE IF \E i \in 1..16 : HexUpper[i] = c
      THEN (CHOOSE i \in 1..16 : HexUpper[i] = c) - 1
      ELSE -1

\* str::to_lowercase on the characters the model uses
ToLowerChar(c) ==
  IF \E i \in 11..16 : HexUpper[i] = c
    THEN HexLower[CHOOSE i \in 11..16 : HexUpper[i] = c]
    ELSE c

ToLower(s) == [i \in 1..Len(s) |-> ToLowerChar(s[i])]

ToUpperChar(c) ==
  IF \E i \in 11..16 : HexLower[i] = c
    THEN HexUpper[CHOOSE i \in 11..16 : HexLower[i] = c]
    ELSE c

ToUpper(s) == [i \in 1..Len(s) |-> ToUpperChar(s[i])]

\* hex::encode: two lower-case digits per byte
HexEncode(bytes) ==
  [i \in 1..(2 * Len(bytes)) |->
     IF i % 2 = 1 THEN HexLower[(bytes[(i + 1) \div 2] \div 16) + 1]
                  ELSE HexLower[(bytes[i \div 2] % 16) + 1]]

\* hex::decode: odd length is reported first, then the first bad character
HexDecode(s) ==
  IF Len(s) % 2 = 1
    THEN [ok |-> FALSE, err |-> "Odd number of digits", bytes |-> <<>>]
    ELSE IF \E i \in 1..Len(s) : HexVal(s[i]) < 0
      THEN [ok |-> FALSE, err |-> "Invalid character", bytes |-> <<>>]
      ELSE [ok |-> TRUE, err |-> "",
            bytes |-> [i \in 1..(Len(s) \div 2) |->
                         16 * HexVal(s[2 * i - 1]) + HexVal(s[2 * i])]]

(***************************************************************************)
(* Outcomes seen by the Python caller.                                     *)
(***************************************************************************)
\* Option: None, or Some(v)
None == [none |-> TRUE]

Some(v) == [some |-> v]

\* serde_pickle::to_vec of a decoded value: the pickle of the object obj
SerdePickle(v) == [obj |-> v]

\* the four bytes [128, 4, 78, 46]: the protocol 4 pickle of Python's None
PickleNone == [obj |-> None]

Returned(pkl) == [kind |-> "Ok", val |-> pkl]

\* DecodeError(DekuError::Parse(..)) -> PyValueError
ValueError(m) == [kind |-> "ValueError", val |-> m]

AssertionError(m) == [kind |-> "AssertionError", val |-> m]

\* an index or slice out of bounds unwinds; pyo3 raises PanicException
PanicException(m) == [kind |-> "PanicException", val |-> m]

\* impl From<DecodeError> for PyErr
DecodeErrorToPyErr(e) ==
  IF e = "Assertion" THEN AssertionError(<<e>>) ELSE ValueError(<<e>>)

(***************************************************************************)
(* Decoders of the rs1090 crate that the binding calls.  Their code is not *)
(* part of the binding file; they follow the crate's specification: a      *)
(* frame is 7 bytes (DF < 16) or 14 bytes, an extended squitter carries a  *)
(* 56-bit payload whose first 5 bits are the typecode, and from_bytes      *)
(* reads the bits it needs and fails with Incomplete when they are absent. *)
(***************************************************************************)
PayloadLen == 7

ShortFrameLen == 7

LongFrameLen == 14

KnownDF == {0, 4, 5, 11, 16, 17, 18, 19, 20, 21}

PositionTypecodes == (9..18) \cup (20..22)

\* AirbornePosition::from_bytes((&payload, 0))
AirbornePositionFromBytes(payload) ==
  IF Len(payload) < PayloadLen
    THEN [ok |-> FALSE, err |-> "Incomplete", msg |-> None]
    ELSE [ok |-> TRUE, err |-> "",
          msg |-> [bds |-> "05",
                   tc |-> payload[1] \div 8,
                   parity |-> (payload[3] \div 4) % 2,
                   lat_cpr |-> (payload[3] % 4) * 32768 + payload[4] * 128
                                 + payload[5] \div 2,
                   lon_cpr |-> (payload[5] % 2) * 65536 + payload[6] * 256
                                 + payload[7],
                   position |-> None]]

\* AircraftOperationStatus::from_bytes((&payload, 0))
AircraftOperationStatusFromBytes(payload) ==
  IF Len(payload) < PayloadLen
    THEN [ok |-> FALSE, err |-> "Incomplete", msg |-> None]
    ELSE [ok |-> TRUE, err |-> "",
          msg |-> [bds |-> "65", tc |-> payload[1] \div 8,
                   category |-> payload[1] % 8,
                   payload |-> SubSeq(payload, 1, PayloadLen)]]

\* the twelve Comm-B registers decoded without a typecode guard in the binding
Registers ==
  {"10", "17", "18", "19", "20", "21", "30", "40", "44", "45", "50", "60"}

\* registers that declare their own number in the first payload byte
SelfDeclared == [r \in {"10", "20", "30"} |->
                   CASE r = "10" -> 16 [] r = "20" -> 32 [] r = "30" -> 48]

\* <Register>::from_bytes((&payload, 0))
RegisterFromBytes(reg, payload) ==
  IF Len(payload) < PayloadLen
    THEN [ok |-> FALSE, err |-> "Incomplete", msg |-> None]
    ELSE IF reg \in DOMAIN SelfDeclared /\ payload[1] # SelfDeclared[reg]
      THEN [ok |-> FALSE, err |-> "Assertion", msg |-> None]
      ELSE [ok |-> TRUE, err |-> "",
            msg |-> [bds |-> reg, payload |-> SubSeq(payload, 1, PayloadLen)]]

\* Message::from_bytes((&bytes, 0))
MessageFromBytes(bytes) ==
  IF Len(bytes) = 0
    THEN [ok |-> FALSE, err |-> "Incomplete", msg |-> None]
    ELSE
      LET df == bytes[1] \div 8
          want == IF df < 16 THEN ShortFrameLen ELSE LongFrameLen
      IN IF df \notin KnownDF
           THEN [ok |-> FALSE, err |-> "Parse", msg |-> None]
           ELSE IF Len(bytes) # want
             THEN [ok |-> FALSE, err |-> "Incomplete", msg |-> None]
             ELSE
               LET icao == IF df \in {11, 17, 18}
                             THEN bytes[2] * 65536 + bytes[3] * 256 + bytes[4]
                             ELSE -1
                   tc == IF df \in {17, 18} THEN bytes[5] \div 8 ELSE -1
                   me == IF tc \in PositionTypecodes
                           THEN AirbornePositionFromBytes(SubSeq(bytes, 5, 11)).msg
                           ELSE None
               IN [ok |-> TRUE, err |-> "",
                   msg |-> [df |-> df, icao24 |-> icao, tc |-> tc, me |-> me]]

(***************************************************************************)
(* Single-frame entry points of the binding.                               *)
(***************************************************************************)
\* decode_1090 with the hex failure swallowed, as the batch closures do with .ok()?
decode_1090_swallow(msg) ==
  LET h == HexDecode(msg) IN
  IF ~h.ok THEN Returned(PickleNone)
  ELSE LET r == MessageFromBytes(h.bytes) IN
       IF r.ok THEN Returned(SerdePickle(r.msg)) ELSE Returned(PickleNone)

\* fn decode_1090(msg)
decode_1090(msg) ==
  LET h == HexDecode(msg) IN
  IF ~h.ok THEN ValueError(<<h.err>>)
  ELSE LET r == MessageFromBytes(h.bytes) IN
       IF r.ok THEN Returned(SerdePickle(r.msg)) ELSE Returned(PickleNone)

\* (9..22).contains(&tc) && tc != 19
Bds05Guard(tc) == tc >= 9 /\ tc < 22 /\ tc # 19

\* format!("Invalid typecode {} for BDS 0,5 (9 to 18 or 20 to 22)", tc)
Bds05Message(tc) == <<"Invalid typecode", tc, "for BDS 0,5 (9 to 18 or 20 to 22)">>

\* fn decode_bds05(msg)
decode_bds05(msg) ==
  LET h == HexDecode(msg) IN
  IF ~h.ok THEN ValueError(<<h.err>>)
  ELSE IF Len(h.bytes) < 5
    THEN PanicException(<<"index out of bounds", 4, Len(h.bytes)>>)
    ELSE
      LET tc == h.bytes[5] \div 8 IN
      IF Bds05Guard(tc)
        THEN LET r == AirbornePositionFromBytes(SubSeq(h.bytes, 5, Len(h.bytes)))
             IN IF r.ok THEN Returned(SerdePickle(r.msg))
                        ELSE DecodeErrorToPyErr(r.err)
        ELSE AssertionError(Bds05Message(tc))

\* fn decode_bds10 .. decode_bds60: the same body for each register type
decode_bds(reg, msg) ==
  LET h == HexDecode(msg) IN
  IF ~h.ok THEN ValueError(<<h.err>>)
  ELSE IF Len(h.bytes) < 4
    THEN PanicException(<<"range start index out of range", 4, Len(h.bytes)>>)
    ELSE LET r == RegisterFromBytes(reg, SubSeq(h.bytes, 5, Len(h.bytes)))
         IN IF r.ok THEN Returned(SerdePickle(r.msg))
                    ELSE DecodeErrorToPyErr(r.err)

\* the guard with an off-by-one on the sub-identifier: id <= 2
Bds65GuardOffByOne(tc, enum_id) == tc = 31 /\ enum_id <= 2

\* match (tc, enum_id) { (31, id) if id < 2 => .. }
Bds65Guard(tc, enum_id) == tc = 31 /\ enum_id < 2

\* format!("Invalid typecode {} (31) or category {} (0 or 1) for BDS 6,5", ..)
Bds65Message(tc, enum_id) ==
  <<"Invalid typecode", tc, "(31) or category", enum_id, "(0 or 1) for BDS 6,5">>

\* fn decode_bds65(msg)
decode_bds65(msg) ==
  LET h == HexDecode(msg) IN
  IF ~h.ok THEN ValueError(<<h.err>>)
  ELSE IF Len(h.bytes) < 5
    THEN PanicException(<<"index out of bounds", 4, Len(h.bytes)>>)
    ELSE
      LET tc == h.bytes[5] \div 8
          enum_id == h.bytes[5] % 8
      IN IF Bds65Guard(tc, enum_id)
           THEN LET r == AircraftOperationStatusFromBytes(
                           SubSeq(h.bytes, 5, Len(h.bytes)))
                IN IF r.ok THEN Returned(SerdePickle(r.msg))
                           ELSE DecodeErrorToPyErr(r.err)
           ELSE AssertionError(Bds65Message(tc, enum_id))

(***************************************************************************)
(* The proximity beacon (FLARM) decoder of the crate.  A record is three   *)
(* address bytes, a scrambled payload and a checksum byte; the key is a    *)
(* function of the reference position and the timestamp, and a record      *)
(* whose checksum does not match after descrambling has no value.          *)
(***************************************************************************)
FlarmMinLen == 5

FlarmKey(ts, reference) == (ts + reference[1] + reference[2]) % 256

RECURSIVE SumSeq(_)
SumSeq(s) == IF s = <<>> THEN 0 ELSE s[1] + SumSeq(Tail(s))

\* Flarm::from_record(timestamp, &reference, &bytes)
FlarmFromRecord(ts, reference, bytes) ==
  IF Len(bytes) < FlarmMinLen
    THEN [ok |-> FALSE, err |-> "Incomplete", msg |-> None]
    ELSE
      LET key == FlarmKey(ts, reference)
          plain == [i \in 1..(Len(bytes) - 3) |-> (bytes[i + 3] + 256 - key) % 256]
          body == SubSeq(plain, 1, Len(plain) - 1)
      IN IF SumSeq(body) % 256 # plain[Len(plain)]
           THEN [ok |-> FALSE, err |-> "Assertion", msg |-> None]
           ELSE [ok |-> TRUE, err |-> "",
                 msg |-> [icao24 |-> bytes[1] * 65536 + bytes[2] * 256 + bytes[3],
                          timestamp |-> ts,
                          reference |-> reference,
                          data |-> body]]

\* fn decode_flarm(msg, ts, reflat, reflon)
decode_flarm(msg, ts, reflat, reflon) ==
  LET h == HexDecode(msg) IN
  IF ~h.ok THEN ValueError(<<h.err>>)
  ELSE LET r == FlarmFromRecord(ts, <<reflat, reflon>>, h.bytes) IN
       IF r.ok THEN Returned(SerdePickle(r.msg)) ELSE Returned(PickleNone)

(***************************************************************************)
(* The CPR position resolver of the crate (decode_positions).  It walks    *)
(* the messages in order and keeps, per aircraft address, the most recent  *)
(* even and the most recent odd airborne position with their timestamps.   *)
(* Two held frames at most AirborneWindow seconds apart give a global      *)
(* decode; otherwise the older is discarded and, when a reference is       *)
(* given, a local decode is made from the single frame.  A resolved        *)
(* position is kept as the term of the values that determine it.           *)
(***************************************************************************)
AirborneWindow == 10

EmptyPositionState == [even |-> None, odd |-> None]

Abs(x) == IF x < 0 THEN -x ELSE x

\* one update of an address's state by a position frame: <<new state, position>>
ResolveStep(st, timestamp, me, reference) ==
  LET cur == [ts |-> timestamp, lat |-> me.lat_cpr, lon |-> me.lon_cpr]
      st1 == IF me.parity = 0 THEN [st EXCEPT !.even = cur]
                              ELSE [st EXCEPT !.odd = cur]
      paired == st1.even # None /\ st1.odd # None
      inWindow == paired /\ Abs(st1.even.ts - st1.odd.ts) <= AirborneWindow
      st2 == IF paired /\ ~inWindow
               THEN IF st1.even.ts > st1.odd.ts
                      THEN [st1 EXCEPT !.odd = None]
                      ELSE [st1 EXCEPT !.even = None]
               ELSE st1
      pos == IF inWindow
               THEN [kind |-> "global",
                     even |-> <<st1.even.lat, st1.even.lon>>,
                     odd |-> <<st1.odd.lat, st1.odd.lon>>,
                     latest |-> me.parity]
               ELSE IF reference # None
                 THEN [kind |-> "local", cpr |-> <<me.lat_cpr, me.lon_cpr>>,
                       parity |-> me.parity, reference |-> reference]
                 ELSE None
  IN <<st2, pos>>

RECURSIVE ResolveFrom(_, _, _, _)
ResolveFrom(res, i, state, reference) ==
  IF i > Len(res) THEN res
  ELSE
    LET m == res[i].message IN
    IF m.me = None THEN ResolveFrom(res, i + 1, state, reference)
    ELSE
      LET st == IF m.icao24 \in DOMAIN state THEN state[m.icao24]
                                             ELSE EmptyPositionState
          step == ResolveStep(st, res[i].timestamp, m.me, reference)
          state2 == [a \in DOMAIN state \cup {m.icao24} |->
                       IF a = m.icao24 THEN step[1] ELSE state[a]]
          res2 == [res EXCEPT ![i].message.me.position = step[2]]
      IN ResolveFrom(res2, i + 1, state2, reference)

\* decode_positions(&mut res, position, &None)
DecodePositions(res, reference) == ResolveFrom(res, 1, <<>>, reference)

(***************************************************************************)
(* Batch entry points of the binding.                                      *)
(***************************************************************************)
Min(a, b) == IF a < b THEN a ELSE b

\* Iterator::zip: pairs by index, as long as the shorter of the two
Zip(a, b) == [i \in 1..Min(Len(a), Len(b)) |-> <<a[i], b[i]>>]

RECURSIVE Flatten(_)
\* .flat_map(|v| v).collect(): the sequences' results in the order of the input
Flatten(ss) == IF ss = <<>> THEN <<>> ELSE Head(ss) \o Flatten(Tail(ss))

\* Iterator::filter_map: the Some values, in order
FilterSome(s) == SelectSeq(s, LAMBDA e : e # None)

\* the closure of decode_1090_vec: Option<Message> of one string
Vec1090Item(msg) ==
  LET h == HexDecode(msg) IN
  IF ~h.ok THEN None
  ELSE LET r == MessageFromBytes(h.bytes) IN IF r.ok THEN r.msg ELSE None

\* decode_1090_vec with the failed items filtered out of the result
decode_1090_vec_filtered(msgs_set) ==
  Returned(SerdePickle(Flatten(
    [i \in 1..Len(msgs_set) |->
       FilterSome([j \in 1..Len(msgs_set[i]) |-> Vec1090Item(msgs_set[i][j])])])))

\* fn decode_1090_vec(msgs_set)
decode_1090_vec(msgs_set) ==
  Returned(SerdePickle(Flatten(
    [i \in 1..Len(msgs_set) |->
       [j \in 1..Len(msgs_set[i]) |-> Vec1090Item(msgs_set[i][j])]])))

\* the closure of decode_1090t_vec: Option<TimedMessage> of one string
TVec1090Item(msg, timestamp) ==
  LET h == HexDecode(msg) IN
  IF ~h.ok THEN None
  ELSE LET r == MessageFromBytes(h.bytes) IN
       IF r.ok THEN [timestamp |-> timestamp, frame |-> h.bytes,
                     message |-> r.msg, metadata |-> <<>>, decode_time |-> None]
               ELSE None

\* msgs.iter().zip(ts).filter_map(..).collect() for one sequence
TimedSequence(msgs, ts) ==
  LET z == Zip(msgs, ts) IN
  FilterSome([k \in 1..Len(z) |-> TVec1090Item(z[k][1], z[k][2])])

\* reference.map(|[latitude, longitude]| Position { latitude, longitude })
ReferencePosition(reference) ==
  IF reference = None THEN None
  ELSE [latitude |-> reference.some[1], longitude |-> reference.some[2]]

\* decode_1090t_vec that filters the frames first and zips the survivors with ts
decode_1090t_vec_filter_first(msgs_set, ts_set, reference) ==
  LET z == Zip(msgs_set, ts_set)
      kept(msgs) == SelectSeq(msgs, LAMBDA m : TVec1090Item(m, 0) # None)
      res == Flatten([i \in 1..Len(z) |-> TimedSequence(kept(z[i][1]), z[i][2])])
  IN Returned(SerdePickle(DecodePositions(res, ReferencePosition(reference))))

\* decode_1090t_vec that resolves the positions of each sequence on its own
decode_1090t_vec_per_sequence(msgs_set, ts_set, reference) ==
  LET z == Zip(msgs_set, ts_set)
      res == Flatten([i \in 1..Len(z) |->
                        DecodePositions(TimedSequence(z[i][1], z[i][2]),
                                        ReferencePosition(reference))])
  IN Returned(SerdePickle(res))

\* fn decode_1090t_vec(msgs_set, ts_set, reference)
decode_1090t_vec(msgs_set, ts_set, reference) ==
  LET z == Zip(msgs_set, ts_set)
      res == Flatten([i \in 1..Len(z) |-> TimedSequence(z[i][1], z[i][2])])
  IN Returned(SerdePickle(DecodePositions(res, ReferencePosition(reference))))

\* the closure of decode_flarm_vec: Option<Flarm> of one string
FlarmVecItem(msg, timestamp, reference) ==
  LET h == HexDecode(msg) IN
  IF ~h.ok THEN None
  ELSE LET r == FlarmFromRecord(timestamp, reference, h.bytes) IN
       IF r.ok THEN r.msg ELSE None

\* the reference positions built from ref_lat and ref_lon
FlarmReferences(ref_lat, ref_lon) ==
  LET z == Zip(ref_lat, ref_lon) IN
  [i \in 1..Len(z) |->
     LET y == Zip(z[i][1], z[i][2]) IN [j \in 1..Len(y) |-> <<y[j][1], y[j][2]>>]]

\* fn decode_flarm_vec(msgs_set, ts_set, ref_lat, ref_lon)
decode_flarm_vec(msgs_set, ts_set, ref_lat, ref_lon) ==
  LET z == Zip(Zip(msgs_set, ts_set), FlarmReferences(ref_lat, ref_lon))
      one(msgs, ts, reference) ==
        LET y == Zip(Zip(msgs, ts), reference) IN
        FilterSome([k \in 1..Len(y) |->
                      FlarmVecItem(y[k][1][1], y[k][1][2], y[k][2])])
  IN Returned(SerdePickle(Flatten(
       [i \in 1..Len(z) |-> one(z[i][1][1], z[i][1][2], z[i][2])])))

(***************************************************************************)
(* Inputs of the calls.  Frames are built from bytes and hex-encoded, then *)
(* possibly damaged, so that every call parses its string as the binding   *)
(* does.  `args` keeps how the string was built next to the string.        *)
(***************************************************************************)
MaxFrameLen == 15

\* 8d40621d58c382d690c8ac2863a7: airborne position of 40621d, even parity
EvenBytes == <<141, 64, 98, 29, 88, 195, 130, 214, 144, 200, 172, 40, 99, 167>>

\* 8d40621d58c386435cc412692ad6: airborne position of 40621d, odd parity
OddBytes == <<141, 64, 98, 29, 88, 195, 134, 67, 92, 196, 18, 105, 42, 214>>

Resize(bytes, n) ==
  [i \in 1..n |-> IF i <= Len(bytes) THEN bytes[i] ELSE 0]

Damages == {"none", "upper", "odd", "nonhex"}

Damage(kind, s) ==
  CASE kind = "none" -> s
    [] kind = "upper" -> ToUpper(s)
    [] kind = "odd" -> IF s = <<>> THEN <<"8">> ELSE SubSeq(s, 1, Len(s) - 1)
    [] kind = "nonhex" -> IF s = <<>> THEN <<"g", "h">>
                                     ELSE [s EXCEPT ![Len(s)] = "g"]

\* a frame string with downlink format df, typecode tc and sub-identifier sub
FrameInput(df, tc, sub, n, damage) ==
  [msg |-> Damage(damage,
             HexEncode(Resize([EvenBytes EXCEPT ![1] = df * 8 + 5,
                                                ![5] = tc * 8 + sub], n))),
   df |-> df, tc |-> tc, sub |-> sub, n |-> n, damage |-> damage]

\* a proximity beacon record scrambled for the given timestamp and reference
FlarmEncode(ts, reference, icao, body) ==
  LET plain == Append(body, SumSeq(body) % 256)
      key == FlarmKey(ts, reference)
  IN icao \o [i \in 1..Len(plain) |-> (plain[i] + key) % 256]

FlarmTimes == {1, 2}

FlarmLats == {52}

FlarmLons == {4, 5}

\* two beacons, each scrambled for its own timestamp and reference
FlarmRecords ==
  {FlarmEncode(1, <<52, 4>>, <<221, 1, 2>>, <<10, 20, 30>>),
   FlarmEncode(2, <<52, 5>>, <<221, 3, 4>>, <<7, 250>>)}

NoArgs == [msg |-> <<>>]

NoOutcome == [kind |-> "none", val |-> <<>>]

\* no aircraft_information call immediately precedes
NoPrevious == [op |-> "none"]

Init ==
  /\ op = "none"
  /\ args = NoArgs
  /\ out = NoOutcome
  /\ lastInfo = NoPrevious

\* no call is in progress: the interpreter may make the next one
Idle == op = "none"

\* the Python caller takes the outcome of a decoding call
Return ==
  /\ ~Idle
  /\ op # "aircraft_information"
  /\ op' = "none"
  /\ args' = NoArgs
  /\ out' = NoOutcome
  /\ UNCHANGED lastInfo

CallDecode1090 ==
  /\ Idle
  /\ \E df \in 0..31, n \in 0..MaxFrameLen, d \in Damages :
    LET a == FrameInput(df, 11, 0, n, d) IN
    /\ op' = "decode_1090"
    /\ args' = a
    /\ out' = decode_1090(a.msg)
    /\ lastInfo' = NoPrevious

CallDecodeBds05 ==
  /\ Idle
  /\ \E tc \in 0..31, sub \in {0, 7}, n \in 0..MaxFrameLen, d \in Damages :
    LET a == FrameInput(17, tc, sub, n, d) IN
    /\ op' = "decode_bds05"
    /\ args' = a
    /\ out' = decode_bds05(a.msg)
    /\ lastInfo' = NoPrevious

CallDecodeBds ==
  /\ Idle
  /\ \E reg \in Registers, tc \in {2, 4, 6, 31}, n \in 0..MaxFrameLen, d \in Damages :
    LET a == FrameInput(20, tc, 0, n, d) IN
    /\ op' = "decode_bds"
    /\ args' = [msg |-> a.msg, df |-> a.df, tc |-> a.tc, sub |-> a.sub,
                n |-> a.n, damage |-> a.damage, reg |-> reg]
    /\ out' = decode_bds(reg, a.msg)
    /\ lastInfo' = NoPrevious

CallDecodeBds65 ==
  /\ Idle
  /\ \E tc \in 0..31, sub \in 0..7, n \in 0..MaxFrameLen, d \in Damages :
    LET a == FrameInput(17, tc, sub, n, d) IN
    /\ op' = "decode_bds65"
    /\ args' = a
    /\ out' = decode_bds65(a.msg)
    /\ lastInfo' = NoPrevious

CallDecodeFlarm ==
  /\ Idle
  /\ \E rec \in FlarmRecords, n \in 0..MaxFrameLen, d \in Damages,
     ts \in FlarmTimes, lat \in FlarmLats, lon \in FlarmLons :
    LET m == Damage(d, HexEncode(SubSeq(rec, 1, IF n < Len(rec) THEN n ELSE Len(rec))))
    IN /\ op' = "decode_flarm"
       /\ args' = [msg |-> m, n |-> n, damage |-> d, ts |-> ts,
                   reflat |-> lat, reflon |-> lon]
       /\ out' = decode_flarm(m, ts, lat, lon)
       /\ lastInfo' = NoPrevious

SingleNext ==
  \/ CallDecode1090
  \/ CallDecodeBds05
  \/ CallDecodeBds
  \/ CallDecodeBds65
  \/ CallDecodeFlarm
  \/ Return

SpecSingle == Init /\ [][SingleNext]_vars

(***************************************************************************)
(* Properties of the single-frame entry points.                            *)
(***************************************************************************)
\* the string of the call is valid hex (even digit count, hex digits only)
ValidHex == args.damage \in {"none", "upper"}

\* C2: decode_bds05 attempts the decode exactly for the typecodes 9..18 and
\* 20..22; every other typecode of 0..31 fails with the range error that
\* names the observed typecode and the band "9 to 18 or 20 to 22".
C2_Bds05TypecodeBand ==
  (op = "decode_bds05" /\ ValidHex /\ args.n >= 5) =>
     IF args.tc \in (9..18) \cup (20..22)
       THEN out.kind # "AssertionError"
       ELSE /\ out.kind = "AssertionError"
            /\ out.val = <<"Invalid typecode", args.tc,
                           "for BDS 0,5 (9 to 18 or 20 to 22)">>

\* C3: a string that is not valid hex, or that decodes to a byte length other
\* than 7 or 14 (fewer than 5 bytes and the empty string included), ends every
\* single-frame entry point in a format error (ValueError), or in NoValue for
\* the lenient decode_1090; it never ends in decoded fields, nor in any other
\* outcome such as a panic of the call.
C3_MalformedInputIsFormatError ==
  /\ (op \in {"decode_1090", "decode_bds05", "decode_bds", "decode_bds65"}
        /\ (~ValidHex \/ args.n \notin {ShortFrameLen, LongFrameLen}))
       => \/ out.kind = "ValueError"
          \/ op = "decode_1090" /\ out = Returned(PickleNone)
  /\ (op = "decode_flarm" /\ ~ValidHex) => out.kind = "ValueError"

\* C5: decode_bds65 attempts the decode only for typecode 31 with
\* sub-identifier 0 or 1; every other pair fails with the range error that
\* names the observed typecode and sub-identifier and the allowed "31" and
\* "0 or 1", raised to the caller and never turned into NoValue.
C5_Bds65RangeError ==
  (op = "decode_bds65" /\ ValidHex /\ args.n >= 5) =>
     IF args.tc = 31 /\ args.sub \in {0, 1}
       THEN out.kind \in {"Ok", "ValueError"}
       ELSE /\ out.kind = "AssertionError"
            /\ out.val = <<"Invalid typecode", args.tc, "(31) or category",
                           args.sub, "(0 or 1) for BDS 6,5">>

\* C5 witness: typecode 31 with sub-identifier 2 has been rejected
C5_Witness ==
  /\ op = "decode_bds65" /\ ValidHex /\ args.n = LongFrameLen
  /\ args.tc = 31 /\ args.sub = 2
  /\ out.kind = "AssertionError"

\* the frame of the call is one the frame decoder classifies
Classifiable ==
  /\ args.df \in KnownDF
  /\ args.n = IF args.df < 16 THEN ShortFrameLen ELSE LongFrameLen

\* C6: decode_1090 returns NoValue, never an error, for a well-formed hex
\* frame that cannot be classified; it fails, never NoValue, for a string that
\* is not valid hex; and a classified frame returns its decoded fields, so
\* NoValue never carries any.
C6_LenientNoValue ==
  op = "decode_1090" =>
    /\ (ValidHex /\ ~Classifiable) => out = Returned(PickleNone)
    /\ ~ValidHex => out.kind = "ValueError"
    /\ (ValidHex /\ Classifiable) =>
          /\ out.kind = "Ok"
          /\ out.val # PickleNone
          /\ out.val.obj.df = args.df

\* C6 witness: a well-formed hex frame of an unknown downlink format gave NoValue
C6_Witness ==
  /\ op = "decode_1090" /\ args.damage = "none" /\ args.n = LongFrameLen
  /\ args.df \notin KnownDF
  /\ out = Returned(PickleNone)

(***************************************************************************)
(* Batch calls.  A call's sequences are a split of a flat list of frames   *)
(* drawn by name from a pool; the timestamp of a frame is its flat index   *)
(* times the step, so every frame of a call has a timestamp of its own.    *)
(***************************************************************************)
MaxFrames == 3

MaxSeqs == 2

FrameNames == {"E", "O", "X", "U"}

\* the frames that decode to a message
Decodable == {"E", "O"}

PoolFrame(name) ==
  CASE name = "E" -> HexEncode(EvenBytes)
    [] name = "O" -> HexEncode(OddBytes)
    [] name = "X" -> Damage("nonhex", HexEncode(EvenBytes))
    [] name = "U" -> HexEncode(Resize(EvenBytes, 6))

SeqsUpTo(S, n) == UNION {[1..k -> S] : k \in 0..n}

RECURSIVE Splits(_, _)
\* the ways to cut a flat list into s consecutive (possibly empty) sequences
Splits(flat, s) ==
  IF s = 1 THEN {<<flat>>}
  ELSE UNION {{<<SubSeq(flat, 1, c)>> \o rest :
                  rest \in Splits(SubSeq(flat, c + 1, Len(flat)), s - 1)} :
                c \in 0..Len(flat)}

TsSteps == {6, 20}

TsShapes == {"aligned", "short", "outer"}

References == <<None, Some(<<52, 4>>)>>

\* the number of frames in the sequences before sequence i
Offset(names, i) == Len(Flatten(SubSeq(names, 1, i - 1)))

\* the timestamp lists of a call: aligned with the frames, or with the last
\* timestamp of the last sequence missing, or with the last sequence missing
TimestampLists(names, step, shape) ==
  LET n == Len(names)
      full == [i \in 1..n |->
                 [j \in 1..Len(names[i]) |-> (Offset(names, i) + j - 1) * step]]
  IN CASE shape = "aligned" -> full
       [] shape = "short" ->
            [full EXCEPT ![n] = SubSeq(full[n], 1, Len(full[n]) - 1)]
       [] shape = "outer" -> SubSeq(full, 1, n - 1)

FrameStrings(names) ==
  [i \in 1..Len(names) |-> [j \in 1..Len(names[i]) |-> PoolFrame(names[i][j])]]

CallDecode1090Vec ==
  /\ Idle
  /\ \E flat \in SeqsUpTo(FrameNames, MaxFrames), s \in 1..MaxSeqs :
       \E names \in Splits(flat, s) :
         /\ op' = "decode_1090_vec"
         /\ args' = [msgs_set |-> FrameStrings(names), names |-> names]
         /\ out' = decode_1090_vec(FrameStrings(names))
         /\ lastInfo' = NoPrevious

CallDecode1090tVec ==
  /\ Idle
  /\ \E flat \in SeqsUpTo(FrameNames, MaxFrames), s \in 1..MaxSeqs,
        step \in TsSteps, shape \in TsShapes, r \in 1..Len(References) :
       \E names \in Splits(flat, s) :
         LET ts_set == TimestampLists(names, step, shape)
             reference == References[r]
         IN
         /\ op' = "decode_1090t_vec"
         /\ args' = [msgs_set |-> FrameStrings(names), ts_set |-> ts_set,
                     reference |-> reference, names |-> names, shape |-> shape]
         /\ out' = decode_1090t_vec(FrameStrings(names), ts_set, reference)
         /\ lastInfo' = NoPrevious

FlarmNames == {"F1", "F2", "FX", "FM"}

\* a beacon string with the timestamp and the reference it is submitted with;
\* FM is the first beacon submitted with the second one's timestamp and reference
FlarmItem(name) ==
  LET r1 == FlarmEncode(1, <<52, 4>>, <<221, 1, 2>>, <<10, 20, 30>>)
      r2 == FlarmEncode(2, <<52, 5>>, <<221, 3, 4>>, <<7, 250>>)
  IN CASE name = "F1" -> [msg |-> HexEncode(r1), ts |-> 1, lat |-> 52, lon |-> 4]
       [] name = "F2" -> [msg |-> HexEncode(r2), ts |-> 2, lat |-> 52, lon |-> 5]
       [] name = "FX" -> [msg |-> Damage("odd", HexEncode(r1)),
                          ts |-> 3, lat |-> 52, lon |-> 4]
       [] name = "FM" -> [msg |-> HexEncode(r1), ts |-> 2, lat |-> 52, lon |-> 5]

FlarmShapes == {"aligned", "short"}

\* the last element of the last list dropped
DropLast(ll) ==
  IF ll = <<>> THEN ll
  ELSE [ll EXCEPT ![Len(ll)] = SubSeq(ll[Len(ll)], 1, Len(ll[Len(ll)]) - 1)]

CallDecodeFlarmVec ==
  /\ Idle
  /\ \E flat \in SeqsUpTo(FlarmNames, MaxFrames), s \in 1..MaxSeqs,
        shape \in FlarmShapes :
       \E names \in Splits(flat, s) :
         LET field(f) ==
               [i \in 1..Len(names) |->
                  [j \in 1..Len(names[i]) |-> FlarmItem(names[i][j])[f]]]
             lons == IF shape = "short" THEN DropLast(field("lon"))
                                        ELSE field("lon")
         IN /\ op' = "decode_flarm_vec"
            /\ args' = [msgs_set |-> field("msg"), ts_set |-> field("ts"),
                        ref_lat |-> field("lat"), ref_lon |-> lons,
                        names |-> names, shape |-> shape]
            /\ out' = decode_flarm_vec(field("msg"), field("ts"),
                                       field("lat"), lons)
            /\ lastInfo' = NoPrevious

BatchNext ==
  \/ CallDecode1090Vec
  \/ CallDecode1090tVec
  \/ CallDecodeFlarmVec
  \/ Return

SpecBatch == Init /\ [][BatchNext]_vars

(***************************************************************************)
(* Properties of the batch entry points.                                   *)
(***************************************************************************)
\* the list a batch call returned
OutList == out.val.obj

\* the frames of the call, by name, in the order of the input
FlatNames == Flatten(args.names)

\* 0x40621d, the address of both pool frames
PoolAddress == 64 * 65536 + 98 * 256 + 29

ExpectedBytes(name) == IF name = "E" THEN EvenBytes ELSE OddBytes

ExpectedParity(name) == IF name = "E" THEN 0 ELSE 1

Malformed(names) == {j \in 1..Len(names) : names[j] \notin Decodable}

\* every sequence holds at most one malformed frame, and some sequence holds
\* one next to at least one decodable frame
OneMalformedPerSequence ==
  /\ \A i \in 1..Len(args.names) : Cardinality(Malformed(args.names[i])) <= 1
  /\ \E i \in 1..Len(args.names) :
       /\ Cardinality(Malformed(args.names[i])) = 1
       /\ Len(args.names[i]) > 1

AlignedTimestamps == args.shape = "aligned"

DecodableNames == SelectSeq(FlatNames, LAMBDA n : n \in Decodable)

DecodedOffset(i) ==
  Len(SelectSeq(Flatten(SubSeq(args.names, 1, i - 1)), LAMBDA n : n \in Decodable))

PositionOf(tm) == tm.message.me.position

\* C4 as stated: the position resolved for a message of one sequence is the
\* one the same sequence gets when it is decoded alone (same reference): the
\* other sequences of the call do not change it.
C4_PairingStatePerSequence ==
  (op = "decode_1090t_vec" /\ AlignedTimestamps) =>
    \A i \in 1..Len(args.names) :
      LET alone == decode_1090t_vec(<<args.msgs_set[i]>>, <<args.ts_set[i]>>,
                                    args.reference).val.obj
      IN \A k \in 1..Len(alone) :
           PositionOf(OutList[DecodedOffset(i) + k]) = PositionOf(alone[k])

\* C4 as amended: the pairing state is per call.  Positions are resolved in
\* one pass over the flattened result, so the call returns what a call with
\* the single sequence made of all its frames and timestamps returns: a
\* position does not depend on where the sequence boundaries lie, and it can
\* depend on frames of the same aircraft in other sequences of the call.
C4_PairingStatePerCall ==
  (op = "decode_1090t_vec" /\ AlignedTimestamps) =>
    out = decode_1090t_vec(<<Flatten(args.msgs_set)>>, <<Flatten(args.ts_set)>>,
                           args.reference)

\* C4 witness: an odd frame alone in the second sequence was paired with the
\* even frame of the first sequence
C4_Witness ==
  /\ op = "decode_1090t_vec" /\ AlignedTimestamps
  /\ args.names = <<<<"E">>, <<"O">>>>
  /\ args.reference = None
  /\ Len(OutList) = 2
  /\ PositionOf(OutList[2]) # None
  /\ PositionOf(OutList[2]).kind = "global"

RECURSIVE ExpectedTimed(_, _, _, _)
\* the <<frame, timestamp>> pairs of the decodable frames that have a timestamp
\* at their own index of their own sequence, from frame j of sequence i on
ExpectedTimed(names, ts_set, i, j) ==
  IF i > Len(names) \/ i > Len(ts_set) THEN <<>>
  ELSE IF j > Len(names[i]) \/ j > Len(ts_set[i])
    THEN ExpectedTimed(names, ts_set, i + 1, 1)
    ELSE (IF names[i][j] \in Decodable
            THEN <<<<ExpectedBytes(names[i][j]), ts_set[i][j]>>>>
            ELSE <<>>)
         \o ExpectedTimed(names, ts_set, i, j + 1)

\* what each beacon of the pool decodes to with its own timestamp and reference
ExpectedFlarm(name) ==
  IF name = "F1"
    THEN [icao24 |-> 14483714, timestamp |-> 1, reference |-> <<52, 4>>,
          data |-> <<10, 20, 30>>]
    ELSE [icao24 |-> 14484228, timestamp |-> 2, reference |-> <<52, 5>>,
          data |-> <<7, 250>>]

RECURSIVE ExpectedFlarms(_, _, _, _)
ExpectedFlarms(names, lons, i, j) ==
  IF i > Len(names) THEN <<>>
  ELSE IF j > Len(names[i]) \/ j > Len(lons[i])
    THEN ExpectedFlarms(names, lons, i + 1, 1)
    ELSE (IF names[i][j] \in {"F1", "F2"} THEN <<ExpectedFlarm(names[i][j])>>
                                          ELSE <<>>)
         \o ExpectedFlarms(names, lons, i, j + 1)

\* C10: every result of decode_1090t_vec and decode_flarm_vec carries the
\* timestamp (and is decoded with the reference) found at the index of its
\* frame in the sequence of its frame; a dropped frame takes its timestamp
\* with it, and no timestamp moves to a later frame or to another sequence.
C10_TimestampAtSameIndex ==
  /\ op = "decode_1090t_vec" =>
       /\ out.kind = "Ok"
       /\ [k \in 1..Len(OutList) |-> <<OutList[k].frame, OutList[k].timestamp>>]
            = ExpectedTimed(args.names, args.ts_set, 1, 1)
  /\ op = "decode_flarm_vec" =>
       /\ out.kind = "Ok"
       /\ OutList = ExpectedFlarms(args.names, args.ref_lon, 1, 1)

\* C10 witness: a malformed frame was dropped ahead of a decodable frame, which
\* kept the timestamp of its own index, and the next sequence kept its own
C10_Witness ==
  /\ op = "decode_1090t_vec" /\ AlignedTimestamps
  /\ args.names = <<<<"X", "E">>, <<"O">>>>
  /\ Len(OutList) = 2
  /\ OutList[1].timestamp = args.ts_set[1][2]
  /\ OutList[2].timestamp = args.ts_set[2][1]
  /\ args.ts_set[1][1] # args.ts_set[1][2]

(***************************************************************************)
(* The address resolver.  PATTERNS and tail are data and code of the crate *)
(* that the binding reads: an ordered table of address ranges, each with   *)
(* an ordered list of category rules, and a table that derives a tail      *)
(* number from an address.  The table below has the shapes the resolver    *)
(* must handle: overlapping ranges, entries lacking a start or an end, and *)
(* rules that override the country and the flag.                           *)
(***************************************************************************)
\* PATTERNS.registers
PATTERNS ==
<<
   [start |-> Some(<<"0", "x", "4", "8", "4", "0", "0", "0">>),
    end |-> Some(<<"0", "x", "4", "8", "7", "f", "f", "f">>),
    country |-> "Netherlands", flag |-> "flag NL",
    pattern |-> Some(<<"^", "P", "H", "-">>), comment |-> None,
    categories |->
      Some(<<[pattern |-> <<"^", "P", "H", "-", "1">>,
         category |-> Some("Gliders"), country |-> None, flag |-> None],
        [pattern |-> <<"^", "P", "H", "-">>,
         category |-> Some("General aviation"), country |-> None, flag |-> None]>>)],
   [start |-> Some(<<"0", "x", "4", "8", "0", "0", "0", "0">>),
    end |-> Some(<<"0", "x", "4", "f", "f", "f", "f", "f">>),
    country |-> "Europe", flag |-> "flag EU",
    pattern |-> None, comment |-> Some("regional block"),
    categories |->
      None],
   [start |-> Some(<<"0", "x", "5", "0", "0", "0", "0", "0">>),
    end |-> None,
    country |-> "Open ended", flag |-> "flag OE",
    pattern |-> None, comment |-> None,
    categories |->
      None],
   [start |-> None,
    end |-> Some(<<"0", "x", "5", "f", "f", "f", "f", "f">>),
    country |-> "Open start", flag |-> "flag OS",
    pattern |-> None, comment |-> None,
    categories |->
      None],
   [start |-> Some(<<"0", "x", "3", "8", "0", "0", "0", "0">>),
    end |-> Some(<<"0", "x", "3", "b", "f", "f", "f", "f">>),
    country |-> "France", flag |-> "flag FR",
    pattern |-> Some(<<"^", "F", "-">>), comment |-> None,
    categories |->
      Some(<<[pattern |-> <<"^", "F", "-", "O">>,
         category |-> None, country |-> Some("France (overseas)"), flag |-> Some("flag FO")],
        [pattern |-> <<"^", "F", "-">>,
         category |-> Some("Metropolitan"), country |-> None, flag |-> None]>>)],
   [start |-> Some(<<"0", "x", "a", "0", "0", "0", "0", "0">>),
    end |-> Some(<<"0", "x", "a", "f", "f", "f", "f", "f">>),
    country |-> "United States", flag |-> "flag US",
    pattern |-> Some(<<"^", "N">>), comment |-> Some("tail numbers"),
    categories |->
      Some(<<[pattern |-> <<"^", "N">>,
         category |-> Some("Civil"), country |-> None, flag |-> None]>>)]
>>

\* tail(hexid): the tail number derived from the address, if any
TailNumber(hexid) == IF hexid = 10485761 THEN Some(<<"N", "1">>) ELSE None

\* the neutral flag glyph U+1F3F3
NeutralFlag == "white flag"

RECURSIVE HexDigitsValue(_, _)
HexDigitsValue(s, acc) ==
  IF s = <<>> THEN acc ELSE HexDigitsValue(Tail(s), 16 * acc + HexVal(s[1]))

RECURSIVE Significant(_)
\* the digits without their leading zeros
Significant(s) == IF s # <<>> /\ s[1] = "0" THEN Significant(Tail(s)) ELSE s

\* a u32 holds eight hex digits; a longer number overflows
U32HexDigits == 8

\* u32::from_str_radix(s, 16): an optional + sign, then at least one digit
FromStrRadix16(s) ==
  LET digits == IF s # <<>> /\ s[1] = "+" THEN Tail(s) ELSE s IN
  IF digits = <<>> THEN [ok |-> FALSE, err |-> "Empty", val |-> 0]
  ELSE IF \E i \in 1..Len(digits) : HexVal(digits[i]) < 0
    THEN [ok |-> FALSE, err |-> "InvalidDigit", val |-> 0]
    ELSE IF Len(Significant(digits)) > U32HexDigits
      THEN [ok |-> FALSE, err |-> "PosOverflow", val |-> 0]
      ELSE [ok |-> TRUE, err |-> "", val |-> HexDigitsValue(digits, 0)]

\* Regex::new(pattern).is_match(text) for the patterns of the table: an
\* anchored literal matches a prefix, a bare literal matches anywhere
RegexIsMatch(pattern, text) ==
  IF pattern # <<>> /\ pattern[1] = "^"
    THEN LET lit == Tail(pattern) IN
         Len(lit) <= Len(text) /\ SubSeq(text, 1, Len(lit)) = lit
    ELSE \E k \in 0..(Len(text) - Len(pattern)) :
           SubSeq(text, k + 1, k + Len(pattern)) = pattern

\* HashMap::insert
Insert(m, k, v) == [x \in DOMAIN m \cup {k} |-> IF x = k THEN v ELSE m[x]]

\* a scan that keeps the last hit instead of stopping at the first
LastIndex(hits) == CHOOSE i \in hits : \A j \in hits : j <= i

\* where Iterator::find stops: at the first hit, in order
FirstIndex(hits) == CHOOSE i \in hits : \A j \in hits : i <= j

\* Iterator::find: the first element, in order, among those whose index is
\* in hits (the indices where the closure returns true), None without one
FindFirst(seq, hits) ==
  IF hits = {} THEN None ELSE seq[FirstIndex(hits)]

\* the containment test with a missing end read as an open range
EntryContainsOpenEnd(elt, hexid) ==
  /\ elt.start # None
  /\ hexid >= FromStrRadix16(SubSeq(elt.start.some, 3, Len(elt.start.some))).val
  /\ elt.end # None => hexid <= FromStrRadix16(SubSeq(elt.end.some, 3, Len(elt.end.some))).val

\* the closure of registers.iter().find: start and end present, start <= id <= end
EntryContains(elt, hexid) ==
  /\ elt.start # None
  /\ elt.end # None
  /\ hexid >= FromStrRadix16(SubSeq(elt.start.some, 3, Len(elt.start.some))).val
  /\ hexid <= FromStrRadix16(SubSeq(elt.end.some, 3, Len(elt.end.some))).val

\* the address stored as given
Icao24KeyVerbatim(icao24) == icao24

\* icao24.to_lowercase()
Icao24Key(icao24) == ToLower(icao24)

\* the refinement of the mapping by the first matching category rule
ApplyCategories(reg, pattern) ==
  IF "registration" \notin DOMAIN reg \/ pattern.categories = None THEN reg
  ELSE
    LET cats == pattern.categories.some
        cat == FindFirst(cats, {i \in 1..Len(cats) :
                                  RegexIsMatch(cats[i].pattern, reg["registration"])})
    IN IF cat = None THEN reg
       ELSE
         LET r1 == Insert(reg, "pattern", cat.pattern)
             r2 == IF cat.category # None THEN Insert(r1, "category", cat.category.some)
                                          ELSE r1
             r3 == IF cat.country # None THEN Insert(r2, "country", cat.country.some)
                                         ELSE r2
         IN IF cat.flag # None THEN Insert(r3, "flag", cat.flag.some) ELSE r3

\* fn aircraft_information(icao24, registration)
aircraft_information(icao24, registration) ==
  LET h == FromStrRadix16(icao24) IN
  IF ~h.ok THEN ValueError(<<h.err>>)
  ELSE
    LET hexid == h.val
        reg0 == [k \in {"icao24"} |-> Icao24Key(icao24)]
        reg1 == IF TailNumber(hexid) # None
                  THEN Insert(reg0, "registration", TailNumber(hexid).some) ELSE reg0
        reg2 == IF registration # None
                  THEN Insert(reg1, "registration", registration.some) ELSE reg1
        pattern == FindFirst(PATTERNS, {i \in 1..Len(PATTERNS) : EntryContains(PATTERNS[i], hexid)})
    IN IF pattern # None
         THEN
           LET r3 == Insert(Insert(reg2, "country", pattern.country),
                            "flag", pattern.flag)
               r4 == IF pattern.pattern # None
                       THEN Insert(r3, "pattern", pattern.pattern.some) ELSE r3
               r5 == IF pattern.comment # None
                       THEN Insert(r4, "comment", pattern.comment.some) ELSE r4
           IN Returned(ApplyCategories(r5, pattern))
         ELSE Returned(Insert(Insert(reg2, "country", "Unknown"),
                              "flag", NeutralFlag))

(***************************************************************************)
(* Calls of the address resolver.  Every address comes with its lower-case *)
(* spelling and with the index of the first table entry that contains it   *)
(* (0: none, -1: not an address).                                          *)
(***************************************************************************)
AddressPool ==
  {[icao24 |-> <<"4", "8", "4", "0", "d", "6">>, lower |-> <<"4", "8", "4", "0", "d", "6">>, entry |-> 1],
   [icao24 |-> <<"4", "8", "4", "0", "D", "6">>, lower |-> <<"4", "8", "4", "0", "d", "6">>, entry |-> 1],
   [icao24 |-> <<"4", "9", "0", "0", "0", "0">>, lower |-> <<"4", "9", "0", "0", "0", "0">>, entry |-> 2],
   [icao24 |-> <<"5", "0", "0", "0", "0", "1">>, lower |-> <<"5", "0", "0", "0", "0", "1">>, entry |-> 0],
   [icao24 |-> <<"5", "A", "B", "C", "D", "E">>, lower |-> <<"5", "a", "b", "c", "d", "e">>, entry |-> 0],
   [icao24 |-> <<"3", "8", "0", "0", "0", "0">>, lower |-> <<"3", "8", "0", "0", "0", "0">>, entry |-> 5],
   [icao24 |-> <<"3", "b", "F", "F", "f", "f">>, lower |-> <<"3", "b", "f", "f", "f", "f">>, entry |-> 5],
   [icao24 |-> <<"3", "c", "0", "0", "0", "0">>, lower |-> <<"3", "c", "0", "0", "0", "0">>, entry |-> 0],
   [icao24 |-> <<"3", "7", "f", "f", "f", "f">>, lower |-> <<"3", "7", "f", "f", "f", "f">>, entry |-> 0],
   [icao24 |-> <<"a", "0", "0", "0", "0", "1">>, lower |-> <<"a", "0", "0", "0", "0", "1">>, entry |-> 6],
   [icao24 |-> <<"A", "0", "0", "0", "0", "1">>, lower |-> <<"a", "0", "0", "0", "0", "1">>, entry |-> 6],
   [icao24 |-> <<"0", "0", "0", "0", "0", "0">>, lower |-> <<"0", "0", "0", "0", "0", "0">>, entry |-> 0],
   [icao24 |-> <<"+", "4", "8", "4", "0", "d", "6">>, lower |-> <<"+", "4", "8", "4", "0", "d", "6">>, entry |-> 1],
   [icao24 |-> <<"1", "0", "0", "0", "0", "0", "0">>, lower |-> <<"1", "0", "0", "0", "0", "0", "0">>, entry |-> 0],
   [icao24 |-> <<"4", "8", "g", "0", "d", "6">>, lower |-> <<"4", "8", "g", "0", "d", "6">>, entry |-> -1],
   [icao24 |-> <<>>, lower |-> <<>>, entry |-> -1],
   [icao24 |-> <<"1", "2", "3", "4", "5", "6", "7", "8", "9">>, lower |-> <<"1", "2", "3", "4", "5", "6", "7", "8", "9">>, entry |-> -1]}

RegistrationPool ==
  <<None,
   Some(<<"P", "H", "-", "1", "A", "B">>),
   Some(<<"P", "H", "-", "A", "B", "C">>),
   Some(<<"F", "-", "O", "A", "B", "C">>),
   Some(<<"F", "-", "G", "A", "B", "C">>),
   Some(<<"Z", "Z", "-", "T", "O", "P">>)>>

CallAircraftInformation ==
  /\ Idle
  /\ \E a \in AddressPool, r \in 1..Len(RegistrationPool) :
       LET registration == RegistrationPool[r]
           result == aircraft_information(a.icao24, registration)
       IN
       /\ op' = "aircraft_information"
       /\ args' = [icao24 |-> a.icao24, lower |-> a.lower, entry |-> a.entry,
                   registration |-> registration]
       /\ out' = result
       /\ UNCHANGED lastInfo

\* the caller takes the mapping; the call is remembered as the previous one
ReturnInformation ==
  /\ op = "aircraft_information"
  /\ op' = "none"
  /\ args' = NoArgs
  /\ out' = NoOutcome
  /\ lastInfo' = [op |-> op, args |-> args, out |-> out]

InfoNext ==
  \/ CallAircraftInformation
  \/ ReturnInformation

SpecInfo == Init /\ [][InfoNext]_vars

\* every entry point of the module
Next == SingleNext \/ BatchNext \/ InfoNext

Spec == Init /\ [][Next]_vars

(***************************************************************************)
(* Properties of the address resolver.                                     *)
(***************************************************************************)
\* the mapping the call returned
Mapping == out.val

\* the registration the rules are matched against: the one supplied, else the
\* tail number of the address a00001, else none
KnownRegistration ==
  IF args.registration # None THEN args.registration
  ELSE IF args.lower = <<"a", "0", "0", "0", "0", "1">> THEN Some(<<"N", "1">>) ELSE None

\* the index of the first rule of the entry that matches the registration
\* (0: none), written out for the registrations of the pool
FirstRule(entry, registration) ==
  IF registration = None THEN 0
  ELSE LET r == registration.some IN
    CASE entry = 1 /\ r = <<"P", "H", "-", "1", "A", "B">> -> 1
      [] entry = 1 /\ r = <<"P", "H", "-", "A", "B", "C">> -> 2
      [] entry = 5 /\ r = <<"F", "-", "O", "A", "B", "C">> -> 1
      [] entry = 5 /\ r = <<"F", "-", "G", "A", "B", "C">> -> 2
      [] entry = 6 /\ r = <<"N", "1">> -> 1
      [] OTHER -> 0

\* key k of the mapping is absent when v is None and holds v's value otherwise
HasOption(m, k, v) ==
  IF v = None THEN k \notin DOMAIN m ELSE k \in DOMAIN m /\ m[k] = v.some

\* C7: the mapping is seeded from the first table entry, in table order, whose
\* interval contains the address, and refined by the first rule of that entry,
\* in list order, that matches the registration: the rule's pattern replaces
\* the entry's, and its category, country and flag apply only where the rule
\* has them; no later entry and no later rule shows in the result.
C7_FirstMatchWins ==
  (op = "aircraft_information" /\ args.entry >= 1) =>
    LET e == PATTERNS[args.entry]
        rule == FirstRule(args.entry, KnownRegistration)
    IN /\ out.kind = "Ok"
       /\ HasOption(Mapping, "comment", e.comment)
       /\ IF rule = 0
            THEN /\ Mapping["country"] = e.country
                 /\ Mapping["flag"] = e.flag
                 /\ HasOption(Mapping, "pattern", e.pattern)
                 /\ "category" \notin DOMAIN Mapping
            ELSE LET cat == e.categories.some[rule] IN
                 /\ Mapping["pattern"] = cat.pattern
                 /\ HasOption(Mapping, "category", cat.category)
                 /\ Mapping["country"] =
                      IF cat.country = None THEN e.country ELSE cat.country.some
                 /\ Mapping["flag"] =
                      IF cat.flag = None THEN e.flag ELSE cat.flag.some

\* C7 witness: an address inside two overlapping entries, with a registration
\* that two rules of the first entry match, got the first entry and first rule
C7_Witness ==
  /\ op = "aircraft_information"
  /\ args.lower = <<"4", "8", "4", "0", "d", "6">>
  /\ args.registration = Some(<<"P", "H", "-", "1", "A", "B">>)
  /\ out.kind = "Ok"
  /\ Mapping["country"] = "Netherlands"
  /\ Mapping["category"] = "Gliders"

\* C8: an address that lies in no range entry (entries lacking a start or an
\* end match nothing) gets icao24, country "Unknown" and the neutral flag, and
\* neither a category nor a pattern key, with or without a registration.
C8_UnknownAddress ==
  (op = "aircraft_information" /\ args.entry = 0) =>
    /\ out.kind = "Ok"
    /\ Mapping["icao24"] = args.lower
    /\ Mapping["country"] = "Unknown"
    /\ Mapping["flag"] = NeutralFlag
    /\ "category" \notin DOMAIN Mapping
    /\ "pattern" \notin DOMAIN Mapping
    /\ DOMAIN Mapping \subseteq {"icao24", "country", "flag", "registration"}
    /\ "registration" \in DOMAIN Mapping <=> args.registration # None

\* C8 witness: an address above the start of an entry that has no end, looked
\* up with a registration, came back as Unknown
C8_Witness ==
  /\ op = "aircraft_information"
  /\ args.icao24 = <<"5", "0", "0", "0", "0", "1">>
  /\ args.registration # None
  /\ out.kind = "Ok"
  /\ Mapping["country"] = "Unknown"

\* C9: the upper-case and the lower-case spelling of an address give the same
\* mapping as the spelling of the call, a repeated call gives the mapping of
\* the previous one, and icao24 is the lower-case hex form of the address.
C9_CaseInsensitive ==
  op = "aircraft_information" =>
    /\ out = aircraft_information(ToUpper(args.icao24), args.registration)
    /\ out = aircraft_information(ToLower(args.icao24), args.registration)
    /\ out.kind = "Ok" => Mapping["icao24"] = args.lower
    /\ (/\ lastInfo.op = "aircraft_information"
        /\ lastInfo.args.lower = args.lower
        /\ lastInfo.args.registration = args.registration)
         => lastInfo.out = out

\* C9 witness: the upper-case spelling, called after the lower-case one,
\* returned the same mapping with the lower-case icao24
C9_Witness ==
  /\ op = "aircraft_information"
  /\ args.icao24 = <<"4", "8", "4", "0", "D", "6">>
  /\ lastInfo.op = "aircraft_information"
  /\ lastInfo.args.icao24 = <<"4", "8", "4", "0", "d", "6">>
  /\ lastInfo.args.registration = args.registration
  /\ out.kind = "Ok"
  /\ lastInfo.out = out
  /\ Mapping["icao24"] = <<"4", "8", "4", "0", "d", "6">>

====
